---- MODULE Spec2Model ----
(***************************************************************************)
(* basketry/typescript-docs: the closure resolver (InterfaceInfo) and the  *)
(* document renderer (Builder) over an immutable Service.                  *)
(*                                                                         *)
(* Strings are sequences of UTF-16 code units, so that comparison          *)
(* (localeCompare), casing and concatenation are computed, not postulated. *)
(***************************************************************************)
EXTENDS Integers, Sequences, FiniteSets, TLC

VARIABLES
  service,   \* the Service handed to generateDocs (read-only after Init)
  proc,      \* proc[i]: the buildInterfaceDocsFile call for service.interfaces[i]
  files,     \* what build() returned, once it has
  snapshot,  \* what an earlier generateDocs on this Service returned, if any
  ref,       \* the argument of a function of the Builder called on its own
  out        \* what that call produced

vars == <<service, proc, files, snapshot, ref, out>>

(***************************************************************************)
(* Bounds of the model.                                                    *)
(***************************************************************************)
\* longest property list of a Type / member list of a Union
MaxRefs == 2
\* frames the engine's call stack holds before it raises RangeError
MaxStack == 5
\* longest list of validation rules handed to buildRules on its own
MaxRules == 2
\* most parameters of a method handed to buildMethodDefinition on its own
MaxParams == 3

(***************************************************************************)
(* String literals.                                                        *)
(***************************************************************************)
S_Z == <<90>>   \* "Z"
S_a == <<97>>   \* "a"
S_date == <<100, 97, 116, 101>>   \* "date"
S_open == <<60, 33, 45, 45>>   \* "<!--"
S_close == <<45, 45, 45, 62>>   \* "--->"
\* "This code was generated by @basketry/typescript-docs"
S_banner ==
  <<84, 104, 105, 115, 32, 99, 111, 100, 101, 32, 119, 97, 115, 32, 103,
    101, 110, 101, 114, 97, 116, 101, 100, 32, 98, 121, 32, 64, 98, 97, 115,
    107, 101, 116, 114, 121, 47, 116, 121, 112, 101, 115, 99, 114, 105, 112,
    116, 45, 100, 111, 99, 115>>
S_h1 == <<35, 32>>   \* "# "
S_h2Methods == <<35, 35, 32, 77, 101, 116, 104, 111, 100, 115>>   \* "## Methods"
S_h2Types == <<35, 35, 32, 84, 121, 112, 101, 115>>   \* "## Types"
S_h2Enums == <<35, 35, 32, 69, 110, 117, 109, 115>>   \* "## Enums"
S_tocMethods == <<45, 32, 77, 101, 116, 104, 111, 100, 115>>   \* "- Methods"
S_tocTypes == <<45, 32, 84, 121, 112, 101, 115>>   \* "- Types"
S_tocEnums == <<45, 32, 69, 110, 117, 109, 115>>   \* "- Enums"
S_tocItem == <<32, 32, 45, 32, 91>>   \* "  - ["
S_linkMid == <<93, 40>>   \* "]("
S_rparen == <<41>>   \* ")"
S_lparen == <<40>>   \* "("
S_h3 == <<35, 35, 35, 32>>   \* "### "
S_tick == <<96>>   \* "`"
S_sigOpen == <<40, 123>>   \* "({"
S_comma == <<44, 32>>   \* ", "
S_sigClose == <<125>>   \* "}"
S_orUndefined == <<32, 124, 32, 117, 110, 100, 101, 102, 105, 110, 101, 100>>   \* " | undefined"
S_question == <<63>>   \* "?"
S_bullet == <<45, 32, 96>>   \* "- `"
S_tickSpace == <<96, 32>>   \* "` "
S_optional == <<32, 40, 111, 112, 116, 105, 111, 110, 97, 108, 41>>   \* " (optional)"
S_dash == <<32, 45, 32>>   \* " - "
S_space == <<32>>   \* " "
S_returns == <<82, 101, 116, 117, 114, 110, 115, 58, 32>>   \* "Returns: "
S_linkOpen == <<91, 38, 108, 116, 59>>   \* "[&lt;"
S_linkClose == <<38, 103, 116, 59, 93, 40>>   \* "&gt;]("
S_lt == <<38, 108, 116, 59>>   \* "&lt;"
S_gt == <<38, 103, 116, 59>>   \* "&gt;"
S_arr == <<91, 93>>   \* "[]"
S_arrClose == <<41, 91, 93>>   \* ")[]"
S_pipe == <<32, 124, 32>>   \* " | "
\* "#### Map Properties"
S_h4Map ==
  <<35, 35, 35, 35, 32, 77, 97, 112, 32, 80, 114, 111, 112, 101, 114, 116,
    105, 101, 115>>
S_keys == <<45, 32, 75, 101, 121, 115, 58, 32>>   \* "- Keys: "
S_values == <<45, 32, 86, 97, 108, 117, 101, 115, 58, 32>>   \* "- Values: "
S_hash == <<35>>   \* "#"
S_Service == <<83, 101, 114, 118, 105, 99, 101>>   \* "Service"
S_null == <<110, 117, 108, 108>>   \* "null"
S_string == <<115, 116, 114, 105, 110, 103>>   \* "string"
S_number == <<110, 117, 109, 98, 101, 114>>   \* "number"
S_integer == <<105, 110, 116, 101, 103, 101, 114>>   \* "integer"
S_long == <<108, 111, 110, 103>>   \* "long"
S_float == <<102, 108, 111, 97, 116>>   \* "float"
S_double == <<100, 111, 117, 98, 108, 101>>   \* "double"
S_boolean == <<98, 111, 111, 108, 101, 97, 110>>   \* "boolean"
S_dateTime == <<100, 97, 116, 101, 45, 116, 105, 109, 101>>   \* "date-time"
S_untyped == <<117, 110, 116, 121, 112, 101, 100>>   \* "untyped"
S_any == <<97, 110, 121>>   \* "any"
S_Date == <<68, 97, 116, 101>>   \* "Date"
S_v == <<118>>   \* "v"
S_md == <<46, 109, 100>>   \* ".md"
\* "https://developer.mozilla.org/en-US/docs/Web/JavaScript/Data_structures#string_type"
S_uriString ==
  <<104, 116, 116, 112, 115, 58, 47, 47, 100, 101, 118, 101, 108, 111, 112,
    101, 114, 46, 109, 111, 122, 105, 108, 108, 97, 46, 111, 114, 103, 47,
    101, 110, 45, 85, 83, 47, 100, 111, 99, 115, 47, 87, 101, 98, 47, 74,
    97, 118, 97, 83, 99, 114, 105, 112, 116, 47, 68, 97, 116, 97, 95, 115,
    116, 114, 117, 99, 116, 117, 114, 101, 115, 35, 115, 116, 114, 105, 110,
    103, 95, 116, 121, 112, 101>>
\* "https://developer.mozilla.org/en-US/docs/Web/JavaScript/Data_structures#number_type"
S_uriNumber ==
  <<104, 116, 116, 112, 115, 58, 47, 47, 100, 101, 118, 101, 108, 111, 112,
    101, 114, 46, 109, 111, 122, 105, 108, 108, 97, 46, 111, 114, 103, 47,
    101, 110, 45, 85, 83, 47, 100, 111, 99, 115, 47, 87, 101, 98, 47, 74,
    97, 118, 97, 83, 99, 114, 105, 112, 116, 47, 68, 97, 116, 97, 95, 115,
    116, 114, 117, 99, 116, 117, 114, 101, 115, 35, 110, 117, 109, 98, 101,
    114, 95, 116, 121, 112, 101>>
\* "https://developer.mozilla.org/en-US/docs/Web/JavaScript/Data_structures#boolean_type"
S_uriBoolean ==
  <<104, 116, 116, 112, 115, 58, 47, 47, 100, 101, 118, 101, 108, 111, 112,
    101, 114, 46, 109, 111, 122, 105, 108, 108, 97, 46, 111, 114, 103, 47,
    101, 110, 45, 85, 83, 47, 100, 111, 99, 115, 47, 87, 101, 98, 47, 74,
    97, 118, 97, 83, 99, 114, 105, 112, 116, 47, 68, 97, 116, 97, 95, 115,
    116, 114, 117, 99, 116, 117, 114, 101, 115, 35, 98, 111, 111, 108, 101,
    97, 110, 95, 116, 121, 112, 101>>
\* "https://developer.mozilla.org/en-US/docs/Web/JavaScript/Reference/Global_Objects/Date"
S_uriDate ==
  <<104, 116, 116, 112, 115, 58, 47, 47, 100, 101, 118, 101, 108, 111, 112,
    101, 114, 46, 109, 111, 122, 105, 108, 108, 97, 46, 111, 114, 103, 47,
    101, 110, 45, 85, 83, 47, 100, 111, 99, 115, 47, 87, 101, 98, 47, 74,
    97, 118, 97, 83, 99, 114, 105, 112, 116, 47, 82, 101, 102, 101, 114,
    101, 110, 99, 101, 47, 71, 108, 111, 98, 97, 108, 95, 79, 98, 106, 101,
    99, 116, 115, 47, 68, 97, 116, 101>>
\* "https://developer.mozilla.org/en-US/docs/Web/JavaScript/Data_structures#null_type"
S_uriNull ==
  <<104, 116, 116, 112, 115, 58, 47, 47, 100, 101, 118, 101, 108, 111, 112,
    101, 114, 46, 109, 111, 122, 105, 108, 108, 97, 46, 111, 114, 103, 47,
    101, 110, 45, 85, 83, 47, 100, 111, 99, 115, 47, 87, 101, 98, 47, 74,
    97, 118, 97, 83, 99, 114, 105, 112, 116, 47, 68, 97, 116, 97, 95, 115,
    116, 114, 117, 99, 116, 117, 114, 101, 115, 35, 110, 117, 108, 108, 95,
    116, 121, 112, 101>>
\* "  - Max array length: `"
S_ruleArrayMax ==
  <<32, 32, 45, 32, 77, 97, 120, 32, 97, 114, 114, 97, 121, 32, 108, 101,
    110, 103, 116, 104, 58, 32, 96>>
\* "  - Min array length: `"
S_ruleArrayMin ==
  <<32, 32, 45, 32, 77, 105, 110, 32, 97, 114, 114, 97, 121, 32, 108, 101,
    110, 103, 116, 104, 58, 32, 96>>
\* "  - Values must be unique"
S_ruleUnique ==
  <<32, 32, 45, 32, 86, 97, 108, 117, 101, 115, 32, 109, 117, 115, 116, 32,
    98, 101, 32, 117, 110, 105, 113, 117, 101>>
\* "  - Must be greater than `"
S_ruleGt ==
  <<32, 32, 45, 32, 77, 117, 115, 116, 32, 98, 101, 32, 103, 114, 101, 97,
    116, 101, 114, 32, 116, 104, 97, 110, 32, 96>>
\* "  - Must be greater than or equal to `"
S_ruleGte ==
  <<32, 32, 45, 32, 77, 117, 115, 116, 32, 98, 101, 32, 103, 114, 101, 97,
    116, 101, 114, 32, 116, 104, 97, 110, 32, 111, 114, 32, 101, 113, 117,
    97, 108, 32, 116, 111, 32, 96>>
\* "  - Must be less than `"
S_ruleLt ==
  <<32, 32, 45, 32, 77, 117, 115, 116, 32, 98, 101, 32, 108, 101, 115, 115,
    32, 116, 104, 97, 110, 32, 96>>
\* "  - Must be less than or equal to `"
S_ruleLte ==
  <<32, 32, 45, 32, 77, 117, 115, 116, 32, 98, 101, 32, 108, 101, 115, 115,
    32, 116, 104, 97, 110, 32, 111, 114, 32, 101, 113, 117, 97, 108, 32,
    116, 111, 32, 96>>
\* "  - Must be a multiple of `"
S_ruleMultipleOf ==
  <<32, 32, 45, 32, 77, 117, 115, 116, 32, 98, 101, 32, 97, 32, 109, 117,
    108, 116, 105, 112, 108, 101, 32, 111, 102, 32, 96>>
\* "  - Max length: `"
S_ruleMaxLength ==
  <<32, 32, 45, 32, 77, 97, 120, 32, 108, 101, 110, 103, 116, 104, 58, 32,
    96>>
\* "  - Min length: `"
S_ruleMinLength ==
  <<32, 32, 45, 32, 77, 105, 110, 32, 108, 101, 110, 103, 116, 104, 58, 32,
    96>>
\* "  - Must match pattern: `"
S_rulePattern ==
  <<32, 32, 45, 32, 77, 117, 115, 116, 32, 109, 97, 116, 99, 104, 32, 112,
    97, 116, 116, 101, 114, 110, 58, 32, 96>>

Names == {S_Z, S_a, S_date}

(***************************************************************************)
(* String.prototype.localeCompare on names made of ASCII letters, as ICU's *)
(* root collation orders them: first by the letters regardless of case     *)
(* (primary strength), then lower case before upper case (tertiary).  "_"  *)
(* is not ignored and comes before every letter.                           *)
(***************************************************************************)
IsUpper(c) == c >= 65 /\ c <= 90

ToLower(c) == IF IsUpper(c) THEN c + 32 ELSE c

RECURSIVE LexCompare(_, _, _)
LexCompare(a, b, i) ==
  IF i > Len(a) /\ i > Len(b) THEN 0
  ELSE IF i > Len(a) THEN -1
  ELSE IF i > Len(b) THEN 1
  ELSE IF a[i] < b[i] THEN -1
  ELSE IF a[i] > b[i] THEN 1
  ELSE LexCompare(a, b, i + 1)

\* comparison of the code units, what a < b does on strings
CodeUnitCompare(a, b) == LexCompare(a, b, 1)

localeCompare(a, b) ==
  LET primary(s) == [i \in 1..Len(s) |-> ToLower(s[i])]
      tertiary(s) == [i \in 1..Len(s) |-> IF IsUpper(s[i]) THEN 1 ELSE 0]
      p == LexCompare(primary(a), primary(b), 1)
  IN IF p # 0 THEN p ELSE LexCompare(tertiary(a), tertiary(b), 1)

\* Array.prototype.sort((a, b) => a.localeCompare(b)): stable
RECURSIVE InsertSorted(_, _)
InsertSorted(sorted, x) ==
  IF sorted = <<>> THEN <<x>>
  ELSE IF localeCompare(sorted[Len(sorted)], x) <= 0 THEN Append(sorted, x)
  ELSE Append(InsertSorted(SubSeq(sorted, 1, Len(sorted) - 1), x),
              sorted[Len(sorted)])

RECURSIVE SortFrom(_, _, _)
SortFrom(arr, i, acc) ==
  IF i > Len(arr) THEN acc ELSE SortFrom(arr, i + 1, InsertSorted(acc, arr[i]))

\* the order of discovery
unsorted(arr) == arr

sort(arr) == SortFrom(arr, 1, <<>>)

(***************************************************************************)
(* basketry's lookups by name: the entity of that name, or nothing.  An    *)
(* optional value is a sequence of length 0 or 1.                          *)
(***************************************************************************)
getTypeByName(name) ==
  IF name \in DOMAIN service.types THEN <<service.types[name]>> ELSE <<>>

getEnumByName(name) ==
  IF name \in DOMAIN service.enums THEN <<service.enums[name]>> ELSE <<>>

getUnionByName(name) ==
  IF name \in DOMAIN service.unions THEN <<service.unions[name]>> ELSE <<>>

(***************************************************************************)
(* InterfaceInfo.  A Map<string, Entity> is the sequence of its keys in    *)
(* insertion order; the value under a key is the Service's entity of that  *)
(* name.  calls and sets count the invocations of traverse and of Map.set. *)
(***************************************************************************)
NoMaps == [types |-> <<>>, unions |-> <<>>, enums |-> <<>>]

\* the six maps as static fields: one set of them for every instance
StaticFields(live) ==
  LET all(mode, c) == [i \in DOMAIN live |-> live[i][mode][c]]
      flat(mode, c) ==
        LET RECURSIVE Cat(_)
            Cat(i) == IF i > Len(live) THEN <<>> ELSE all(mode, c)[i] \o Cat(i + 1)
        IN Cat(1)
      maps(mode) == [c \in {"types", "unions", "enums"} |-> flat(mode, c)]
  IN [input |-> maps("input"), output |-> maps("output"),
      calls |-> 0, sets |-> 0, threw |-> FALSE]

\* the fields of a new instance, whatever instances exist already
InstanceFields(live) ==
  [input |-> NoMaps, output |-> NoMaps, calls |-> 0, sets |-> 0, threw |-> FALSE]

MapHas(m, k) == \E i \in 1..Len(m) : m[i] = k

MapSet(m, k) == IF MapHas(m, k) THEN m ELSE Append(m, k)

\* no early return at all
NeverVisited(info, typeName, mode) == FALSE

\* one visited set for both directions
VisitedInEitherMode(info, typeName, mode) ==
  \E m \in {"input", "output"}, c \in {"types", "unions", "enums"} :
    MapHas(info[m][c], typeName)

Visited(info, typeName, mode) ==
  \/ MapHas(info[mode].types, typeName)
  \/ MapHas(info[mode].unions, typeName)
  \/ MapHas(info[mode].enums, typeName)

\* Type, then Enum, then Union
ResolveEnumFirst(typeName) ==
  IF getTypeByName(typeName) # <<>> THEN "types"
  ELSE IF getEnumByName(typeName) # <<>> THEN "enums"
  ELSE IF getUnionByName(typeName) # <<>> THEN "unions"
  ELSE "none"

\* the branch of `if (type) ... else if (union) ... else if (e)` taken
Resolve(typeName) ==
  IF getTypeByName(typeName) # <<>> THEN "types"
  ELSE IF getUnionByName(typeName) # <<>> THEN "unions"
  ELSE IF getEnumByName(typeName) # <<>> THEN "enums"
  ELSE "none"

Record(info, mode, category, typeName) ==
  [info EXCEPT ![mode][category] = MapSet(@, typeName), !.sets = @ + 1]

RECURSIVE traverse(_, _, _, _)
RECURSIVE traverseEach(_, _, _, _, _, _)

\* a loop left by a return after its first call of traverse
RECURSIVE traverseEachReturningEarly(_, _, _, _, _, _)
traverseEachReturningEarly(info, xs, i, mode, depth, skipPrimitive) ==
  IF i > Len(xs) THEN info
  ELSE IF skipPrimitive /\ xs[i].isPrimitive
    THEN traverseEachReturningEarly(info, xs, i + 1, mode, depth, skipPrimitive)
  ELSE traverse(info, xs[i].typeName, mode, depth + 1)

\* a loop that ends at the first name that resolves to nothing
RECURSIVE traverseEachUntilDangling(_, _, _, _, _, _)
traverseEachUntilDangling(info, xs, i, mode, depth, skipPrimitive) ==
  IF i > Len(xs) THEN info
  ELSE IF skipPrimitive /\ xs[i].isPrimitive
    THEN traverseEachUntilDangling(info, xs, i + 1, mode, depth, skipPrimitive)
  ELSE IF Resolve(xs[i].typeName) = "none" THEN info
  ELSE traverseEachUntilDangling(traverse(info, xs[i].typeName, mode, depth + 1),
                                 xs, i + 1, mode, depth, skipPrimitive)

traverse(info, typeName, mode, depth) ==
  IF info.threw THEN info
  ELSE IF depth > MaxStack THEN [info EXCEPT !.threw = TRUE]
  ELSE
    LET entered == [info EXCEPT !.calls = @ + 1]
        category == Resolve(typeName)
    IN IF Visited(entered, typeName, mode) THEN entered
       ELSE IF category = "types" THEN
         traverseEach(Record(entered, mode, "types", typeName),
                      service.types[typeName].properties, 1, mode, depth, TRUE)
       ELSE IF category = "unions" THEN
         traverseEach(Record(entered, mode, "unions", typeName),
                      service.unions[typeName].members, 1, mode, depth, FALSE)
       ELSE IF category = "enums" THEN
         Record(entered, mode, "enums", typeName)
       ELSE entered

\* for (const x of xs) { if (!skipPrimitive || !x.isPrimitive) traverse(x.typeName) }
traverseEach(info, xs, i, mode, depth, skipPrimitive) ==
  IF i > Len(xs) THEN info
  ELSE traverseEach(
         IF skipPrimitive /\ xs[i].isPrimitive THEN info
         ELSE traverse(info, xs[i].typeName, mode, depth + 1),
         xs, i + 1, mode, depth, skipPrimitive)

RECURSIVE initFrom(_, _, _)
initFrom(info, methods, i) ==
  IF i > Len(methods) THEN info
  ELSE
    LET method == methods[i]
        params == traverseEach(info, method.parameters, 1, "input", 0, FALSE)
        ret == IF method.returnType # <<>> /\ ~method.returnType[1].isPrimitive
               THEN traverse(params, method.returnType[1].typeName, "output", 1)
               ELSE params
    IN initFrom(ret, methods, i + 1)

\* new InterfaceInfo(service, int)
NewInterfaceInfo(int, live) == initFrom(InstanceFields(live), int.methods, 1)

\* new Set([...a.keys(), ...b.keys()])
RECURSIVE KeySet(_, _, _)
KeySet(keys, i, acc) ==
  IF i > Len(keys) THEN acc ELSE KeySet(keys, i + 1, MapSet(acc, keys[i]))

\* [...a.values(), ...b.values()]
mergedWithDuplicates(info, category) ==
  sort(info.input[category] \o info.output[category])

merged(info, category) ==
  sort(KeySet(info.input[category] \o info.output[category], 1, <<>>))

InfoTypes(info) == merged(info, "types")
InfoUnions(info) == merged(info, "unions")
InfoEnums(info) == merged(info, "enums")
inputTypes(info) == sort(info.input.types)
outputTypes(info) == sort(info.output.types)
inputUnions(info) == sort(info.input.unions)
outputUnions(info) == sort(info.output.unions)

(***************************************************************************)
(* Text.                                                                   *)
(***************************************************************************)
RECURSIVE JoinFrom(_, _, _)
JoinFrom(parts, sep, i) ==
  IF i > Len(parts) THEN <<>>
  ELSE IF i = Len(parts) THEN parts[i]
  ELSE parts[i] \o sep \o JoinFrom(parts, sep, i + 1)

\* Array.prototype.join
join(parts, sep) == JoinFrom(parts, sep, 1)

Concat(parts) == join(parts, <<>>)

endsWith(s, suffix) ==
  /\ Len(s) >= Len(suffix)
  /\ SubSeq(s, Len(s) - Len(suffix) + 1, Len(s)) = suffix

(***************************************************************************)
(* The naming collaborators (the `case` package and the name factory of    *)
(* @basketry/typescript), on names made of words of ASCII letters that are *)
(* set apart by a space, "_" or "-" or by a capital after a lower-case     *)
(* letter.                                                                 *)
(***************************************************************************)
ToUpper(c) == IF c >= 97 /\ c <= 122 THEN c - 32 ELSE c

IsSeparator(c) == c \in {32, 45, 95}

\* the words run together, each with its first letter in upper case
RECURSIVE PascalFrom(_, _, _)
PascalFrom(s, i, first) ==
  IF i > Len(s) THEN <<>>
  ELSE IF IsSeparator(s[i]) THEN PascalFrom(s, i + 1, TRUE)
  ELSE <<IF first THEN ToUpper(s[i]) ELSE s[i]>> \o PascalFrom(s, i + 1, FALSE)

pascal(s) == PascalFrom(s, 1, TRUE)

camel(s) ==
  LET p == pascal(s) IN IF p = <<>> THEN p ELSE <<ToLower(p[1])>> \o Tail(p)

\* title: a space before each capital that follows a lower-case letter
RECURSIVE TitleFrom(_, _)
TitleFrom(s, i) ==
  IF i > Len(s) THEN <<>>
  ELSE (IF i > 1 /\ IsUpper(s[i]) /\ ~IsUpper(s[i - 1])
        THEN <<32, s[i]>> ELSE <<s[i]>>) \o TitleFrom(s, i + 1)

title(s) == TitleFrom(pascal(s), 1)

buildInterfaceName(int) == pascal(int.name) \o S_Service

buildMethodName(method) == camel(method.name)

buildParameterName(param) == camel(param.name)

buildPropertyName(prop) == camel(prop.name)

\* buildTypeName of @basketry/typescript
tsBuildTypeName(type) ==
  LET n == type.typeName
      base == IF ~type.isPrimitive THEN pascal(n)
              ELSE IF n = S_null THEN S_null
              ELSE IF n = S_string THEN S_string
              ELSE IF n \in {S_number, S_integer, S_long, S_float, S_double}
                THEN S_number
              ELSE IF n = S_boolean THEN S_boolean
              ELSE IF n \in {S_date, S_dateTime} THEN S_Date
              ELSE S_any
  IN IF type.isArray THEN base \o S_arr ELSE base

isRequired(x) == \E i \in 1..Len(x.rules) : x.rules[i].id = "required"

(***************************************************************************)
(* Builder.  An operator that renders returns [threw, lines] or            *)
(* [threw, text]: threw when the call stack overflowed underneath it.      *)
(***************************************************************************)
anchor(name) ==
  S_hash \o [i \in 1..Len(name) |->
               IF ToLower(name[i]) = 32 THEN 45 ELSE ToLower(name[i])]

buildTypeName(type, skipArrayify) ==
  LET fullyQualifiedName == tsBuildTypeName(type)
  IN IF endsWith(fullyQualifiedName, S_arr) /\ skipArrayify
     THEN SubSeq(fullyQualifiedName, 1, Len(fullyQualifiedName) - 2)
     ELSE fullyQualifiedName

\* the switch of buildLinkedTypeName: the URL of a primitive, if it has one
primitiveUri(typeName) ==
  IF typeName = S_string THEN <<S_uriString>>
  ELSE IF typeName \in {S_number, S_integer, S_long, S_float, S_double}
    THEN <<S_uriNumber>>
  ELSE IF typeName = S_boolean THEN <<S_uriBoolean>>
  ELSE IF typeName \in {S_date, S_dateTime} THEN <<S_uriDate>>
  ELSE IF typeName = S_null THEN <<S_uriNull>>
  ELSE <<>>

Threw == [threw |-> TRUE, text |-> <<>>, lines |-> <<>>]

Text(t) == [threw |-> FALSE, text |-> t, lines |-> <<>>]

Lines(ls) == [threw |-> FALSE, text |-> <<>>, lines |-> ls]

AnyThrew(rs) == \E i \in 1..Len(rs) : rs[i].threw

RECURSIVE buildLinkedTypeName(_, _)
buildLinkedTypeName(param, depth) ==
  IF depth > MaxStack THEN Threw
  ELSE
    LET union == getUnionByName(param.typeName)
        typeName == buildTypeName(param, TRUE)
        suffix == IF param.isArray THEN S_arr ELSE <<>>
        uri == primitiveUri(param.typeName)
    IN IF union # <<>> THEN
         LET rendered == [i \in 1..Len(union[1].members) |->
                            buildLinkedTypeName(union[1].members[i], depth + 1)]
             members == join([i \in 1..Len(rendered) |-> rendered[i].text], S_pipe)
         IN IF AnyThrew(rendered) THEN Threw
            ELSE IF param.isArray
              THEN Text(S_lparen \o members \o S_arrClose)
              ELSE Text(members)
       ELSE IF param.isPrimitive THEN
         IF uri # <<>>
         THEN Text(S_linkOpen \o typeName \o suffix \o S_linkClose \o uri[1]
                   \o S_rparen)
         ELSE Text(S_lt \o typeName \o suffix \o S_gt)
       ELSE Text(S_linkOpen \o typeName \o suffix \o S_linkClose
                 \o anchor(typeName) \o S_rparen)

\* the blocks of a generator, one after the other
Blocks(bs) ==
  IF AnyThrew(bs) THEN Threw
  ELSE Lines(Concat([i \in 1..Len(bs) |-> bs[i].lines]))

\* one line built around the linked type name of x
LinkedLine(x, before, after) ==
  LET linked == buildLinkedTypeName(x, 1)
  IN IF linked.threw THEN Threw
     ELSE Lines(<<before \o linked.text \o after>>)

\* a switch without its breaks
ruleBulletFallThrough(rule) == <<S_ruleUnique>>

ruleBullet(rule) ==
  LET quoted(prefix) == <<prefix \o rule.value \o S_tick>>
  IN CASE rule.id = "array-max-items" -> quoted(S_ruleArrayMax)
       [] rule.id = "array-min-items" -> quoted(S_ruleArrayMin)
       [] rule.id = "array-unique-items" -> <<S_ruleUnique>>
       [] rule.id = "number-gt" -> quoted(S_ruleGt)
       [] rule.id = "number-gte" -> quoted(S_ruleGte)
       [] rule.id = "number-lt" -> quoted(S_ruleLt)
       [] rule.id = "number-lte" -> quoted(S_ruleLte)
       [] rule.id = "number-multiple-of" -> quoted(S_ruleMultipleOf)
       [] rule.id = "string-max-length" -> quoted(S_ruleMaxLength)
       [] rule.id = "string-min-length" -> quoted(S_ruleMinLength)
       [] rule.id = "string-pattern" -> quoted(S_rulePattern)
       [] OTHER -> <<>>

buildRules(rules) == Concat([i \in 1..Len(rules) |-> ruleBullet(rules[i])])

buildParameterDescription(param) ==
  IF param.description = <<>> THEN <<>>
  ELSE S_dash \o join(param.description[1], S_space)

\* buildParameter and buildProperty: the bullet, then the rules
buildField(x, name) ==
  Blocks(<<LinkedLine(x,
                      S_bullet \o name \o S_tickSpace,
                      (IF isRequired(x) THEN <<>> ELSE S_optional)
                        \o buildParameterDescription(x)),
           Lines(buildRules(x.rules))>>)

buildParameter(param) == buildField(param, buildParameterName(param))

buildProperty(prop) == buildField(prop, buildPropertyName(prop))

\* [...xs].sort((a, b) => a.name.value.localeCompare(b.name.value)): stable
RECURSIVE InsertByName(_, _)
InsertByName(sorted, x) ==
  IF sorted = <<>> THEN <<x>>
  ELSE IF localeCompare(sorted[Len(sorted)].name, x.name) <= 0
    THEN Append(sorted, x)
  ELSE Append(InsertByName(SubSeq(sorted, 1, Len(sorted) - 1), x),
              sorted[Len(sorted)])

RECURSIVE SortByNameFrom(_, _, _)
SortByNameFrom(arr, i, acc) ==
  IF i > Len(arr) THEN acc
  ELSE SortByNameFrom(arr, i + 1, InsertByName(acc, arr[i]))

\* the parameters as declared
declaredParameters(parameters) == parameters

sortParameters(parameters) == SortByNameFrom(parameters, 1, <<>>)

\* the methods as declared
methodsAsDeclared(int) == int.methods

methods(int) == SortByNameFrom(int.methods, 1, <<>>)

buildMethodDefinition(method) ==
  LET hasRequiredParams == \E i \in 1..Len(method.parameters) :
                             isRequired(method.parameters[i])
      sorted == sortParameters(method.parameters)
      names == [i \in 1..Len(sorted) |->
                  buildParameterName(sorted[i])
                    \o (IF isRequired(sorted[i]) THEN <<>> ELSE S_question)]
      parameters == IF Len(method.parameters) > 0
                    THEN S_sigOpen \o join(names, S_comma) \o S_sigClose
                           \o (IF hasRequiredParams THEN <<>> ELSE S_orUndefined)
                           \o S_rparen
                    ELSE <<>>
  IN buildMethodName(method) \o parameters

\* the paragraphs of a description, each after an empty line
descriptionLines(description) ==
  IF description = <<>> THEN <<>>
  ELSE Concat([i \in 1..Len(description[1]) |-> << <<>>, description[1][i] >>])

buildMethodDocs(method) ==
  LET sorted == sortParameters(method.parameters)
  IN Blocks(
       << Lines(<< S_h3 \o buildMethodName(method),
                   <<>>,
                   S_tick \o buildMethodDefinition(method) \o S_tick >>),
          IF Len(method.parameters) > 0
          THEN Blocks(<<Lines(<< <<>> >>)>>
                      \o [i \in 1..Len(sorted) |-> buildParameter(sorted[i])])
          ELSE Lines(<<>>),
          IF method.returnType # <<>>
          THEN Blocks(<< Lines(<< <<>> >>),
                         LinkedLine(method.returnType[1], S_returns,
                                    IF method.returnType[1].isArray
                                    THEN S_arr ELSE <<>>) >>)
          ELSE Lines(<<>>),
          Lines(descriptionLines(method.description)),
          Lines(<< <<>> >>) >>)

buildTypeDocs(type) ==
  Blocks(
    << Lines(<< S_h3 \o pascal(type.name),
                <<>>,
                S_tick \o pascal(type.name) \o S_tick >>),
       Lines(descriptionLines(type.description)),
       IF Len(type.properties) > 0
       THEN Blocks(<<Lines(<< <<>> >>)>>
                   \o [i \in 1..Len(type.properties) |->
                         buildProperty(type.properties[i])])
       ELSE Lines(<<>>),
       IF type.mapProperties # <<>>
       THEN Blocks(<< Lines(<< <<>>, S_h4Map, <<>> >>),
                      LinkedLine(type.mapProperties[1].key, S_keys, <<>>),
                      LinkedLine(type.mapProperties[1].value, S_values, <<>>) >>)
       ELSE Lines(<<>>),
       Lines(<< <<>> >>) >>)

buildEnumDocs(e) ==
  Lines(
    << S_h3 \o pascal(e.name), <<>>, S_tick \o pascal(e.name) \o S_tick >>
    \o (IF e.description # <<>> THEN << <<>>, e.description[1] >> ELSE <<>>)
    \o (IF Len(e.values) > 0
        THEN << <<>> >> \o
             [i \in 1..Len(e.values) |->
                S_bullet \o e.values[i] \o S_tick
                  \o (IF e.values[i] \in DOMAIN e.valueDescriptions
                      THEN S_dash \o e.valueDescriptions[e.values[i]]
                      ELSE <<>>)]
        ELSE <<>>)
    \o << <<>> >>)

warning == <<S_open, S_banner, S_close>>

buildInterfaceDescription(int) ==
  IF int.description = <<>> THEN <<>>
  ELSE Concat([i \in 1..Len(int.description[1]) |->
                 << int.description[1][i], <<>> >>])

tocLink(label, target) ==
  S_tocItem \o label \o S_linkMid \o anchor(target) \o S_rparen

\* the three groups, whether they have links or not
buildTocOfEmptyGroups(int, types, enums) ==
  LET ms == SortByNameFrom(int.methods, 1, <<>>)
  IN <<S_tocMethods>>
     \o [i \in 1..Len(ms) |-> tocLink(buildMethodName(ms[i]), buildMethodName(ms[i]))]
     \o <<S_tocTypes>>
     \o [i \in 1..Len(types) |-> tocLink(pascal(types[i]), types[i])]
     \o <<S_tocEnums>>
     \o [i \in 1..Len(enums) |-> tocLink(pascal(enums[i]), enums[i])]

\* types and enums: what this.types(int) and this.enums(int) returned to buildToc
buildToc(int, types, enums) ==
  LET ms == methods(int)
  IN (IF Len(ms) > 0
      THEN <<S_tocMethods>> \o
           [i \in 1..Len(ms) |->
              tocLink(buildMethodName(ms[i]), buildMethodName(ms[i]))]
      ELSE <<>>)
     \o (IF Len(types) > 0
         THEN <<S_tocTypes>> \o
              [i \in 1..Len(types) |-> tocLink(pascal(types[i]), types[i])]
         ELSE <<>>)
     \o (IF Len(enums) > 0
         THEN <<S_tocEnums>> \o
              [i \in 1..Len(enums) |-> tocLink(pascal(enums[i]), enums[i])]
         ELSE <<>>)

\* types, enums: returned to buildInterfaceDocs; tocTypes, tocEnums: to buildToc
buildInterfaceDocs(int, types, enums, tocTypes, tocEnums) ==
  LET ms == methods(int)
  IN Blocks(
       << Lines(warning),
          Lines(<< <<>>, S_h1 \o title(buildInterfaceName(int)), <<>> >>),
          Lines(buildInterfaceDescription(int)),
          Lines(buildToc(int, tocTypes, tocEnums)),
          Lines(<< <<>> >>),
          IF Len(ms) > 0
          THEN Blocks(<<Lines(<<S_h2Methods, <<>> >>)>>
                      \o [i \in 1..Len(ms) |-> buildMethodDocs(ms[i])])
          ELSE Lines(<<>>),
          IF Len(types) > 0
          THEN Blocks(<<Lines(<<S_h2Types, <<>> >>)>>
                      \o [i \in 1..Len(types) |->
                            buildTypeDocs(service.types[types[i]])])
          ELSE Lines(<<>>),
          IF Len(enums) > 0
          THEN Blocks(<<Lines(<<S_h2Enums, <<>> >>)>>
                      \o [i \in 1..Len(enums) |->
                            buildEnumDocs(service.enums[enums[i]])])
          ELSE Lines(<<>>) >>)

\* buildInterfaceDocsFilepath: `v${majorVersion}`, `${kebab(name)}.md`
buildInterfaceDocsFilepath(int) ==
  << S_v \o service.majorVersion,
     [i \in 1..Len(int.name) |-> ToLower(int.name[i])] \o <<45>>
       \o [i \in 1..Len(S_Service) |-> ToLower(S_Service[i])] \o S_md >>

(***************************************************************************)
(* The Services the model runs on.                                         *)
(***************************************************************************)
Categories == {"types", "unions", "enums"}

CRef(n) == [typeName |-> n, isPrimitive |-> FALSE, isArray |-> FALSE]

PRef(n) == [typeName |-> n, isPrimitive |-> TRUE, isArray |-> FALSE]

ArrayOf(r) == [r EXCEPT !.isArray = TRUE]

SeqsUpTo(S, n) == UNION {[1..k -> S] : k \in 0..n}

\* the i-th parameter or property: "q", "p", "o", ... (declared in descending order)
FieldName(i) == <<114 - i>>

RequiredRule == [id |-> "required", value |-> <<>>]

\* a Parameter or Property of reference r; the first of a list is required
MkField(r, i) ==
  [name |-> FieldName(i), typeName |-> r.typeName, isPrimitive |-> r.isPrimitive,
   isArray |-> r.isArray, rules |-> IF i = 1 THEN <<RequiredRule>> ELSE <<>>,
   description |-> <<>>]

MkFields(refs) == [i \in 1..Len(refs) |-> MkField(refs[i], i)]

MkType(n, refs) ==
  [name |-> n, properties |-> MkFields(refs), description |-> <<>>,
   mapProperties |-> <<>>]

MkUnion(n, refs) == [name |-> n, members |-> refs]

MkEnum(n) ==
  [name |-> n, values |-> <<S_a, S_Z>>, description |-> <<>>,
   valueDescriptions |-> <<>>]

MkMethod(n, params, ret) ==
  [name |-> n, parameters |-> MkFields(params), returnType |-> ret,
   description |-> <<>>]

MkInterface(n, ms) == [name |-> n, methods |-> ms, description |-> <<>>]

\* kinds[n]: the maps of the Service that hold an entity named n;
\* lists[n]: the properties (of the Type) and the members (of the Union) named n
MkService(kinds, lists, ints) ==
  [interfaces |-> ints,
   majorVersion |-> <<49>>,
   types |-> [n \in {m \in DOMAIN kinds : "types" \in kinds[m]} |->
                MkType(n, lists[n])],
   unions |-> [n \in {m \in DOMAIN kinds : "unions" \in kinds[m]} |->
                 MkUnion(n, lists[n])],
   enums |-> [n \in {m \in DOMAIN kinds : "enums" \in kinds[m]} |-> MkEnum(n)]]

ByName(z, a, d) == (S_Z :> z) @@ (S_a :> a) @@ (S_date :> d)

IsContainer(kinds) == kinds \cap {"types", "unions"} # {}

ListsOf(kinds, choices) == IF IsContainer(kinds) THEN choices ELSE {<<>>}

S_get == <<103, 101, 116>>   \* "get"
S_pets == <<112, 101, 116, 115>>   \* "pets"
S_vets == <<118, 101, 116, 115>>   \* "vets"

MkInterfaces(n, params, returns) ==
  {MkInterface(n, <<MkMethod(S_get, ps, r)>>) : ps \in params, r \in returns}

\* one interface over a Service whose names are unique across its three maps
WellFormedServices ==
  LET refs == {CRef(S_Z), CRef(S_a), PRef(S_date)}
      params == {<<>>, <<CRef(S_Z)>>, <<PRef(S_date), CRef(S_Z)>>,
                 <<CRef(S_Z), PRef(S_date)>>}
      returns == {<<>>, <<CRef(S_Z)>>, <<CRef(S_a)>>, <<PRef(S_date)>>}
  IN { MkService(ByName(kZ, ka, kd), ByName(lZ, la, <<>>), <<int>>) :
         <<kZ, lZ>> \in UNION {{k} \X ListsOf(k, SeqsUpTo(refs, MaxRefs)) :
                                 k \in {{"types"}, {"unions"}, {"enums"}}},
         <<ka, la>> \in UNION {{k} \X ListsOf(k, {<<>>, <<CRef(S_Z)>>}) :
                                 k \in {{}, {"types"}, {"unions"}, {"enums"}}},
         kd \in {{}, {"enums"}},
         int \in MkInterfaces(S_pets, params, returns) }

\* one interface over a Service in which the name "a" is in several maps
CollidingServices ==
  { MkService(ByName(kZ, ka, {}), ByName(<<CRef(S_a)>>, la, <<>>), <<int>>) :
      kZ \in {{"types"}, {"unions"}},
      ka \in {k \in SUBSET Categories : Cardinality(k) > 1},
      la \in {<<>>, <<CRef(S_Z)>>},
      int \in MkInterfaces(S_pets, {<<CRef(S_Z)>>}, {<<>>, <<CRef(S_a)>>}) }

\* two interfaces over one Service
SharedServices ==
  LET refs == {CRef(S_Z), CRef(S_a)}
      params == {<<>>, <<CRef(S_Z)>>}
      returns == {<<>>, <<CRef(S_a)>>}
  IN { MkService(ByName(kZ, ka, {}), ByName(lZ, la, <<>>), <<pets, vets>>) :
         kZ \in {{"types"}, {"unions"}},
         lZ \in SeqsUpTo(refs, MaxRefs - 1),
         <<ka, la>> \in UNION {{k} \X ListsOf(k, {<<>>, <<CRef(S_Z)>>}) :
                                 k \in {{}, {"types"}, {"unions"}, {"enums"}}},
         pets \in MkInterfaces(S_pets, params, returns),
         vets \in MkInterfaces(S_vets, params, returns) }

(***************************************************************************)
(* build(): one buildInterfaceDocsFile per interface.  Within it           *)
(* buildInterfaceDocs asks for this.types(int) and this.enums(int), then   *)
(* buildToc asks for both again; each builds an InterfaceInfo of its own.  *)
(* build() maps over the interfaces in order; the model admits that order  *)
(* and every other interleaving of the calls of different interfaces.      *)
(***************************************************************************)
NoInfo == InstanceFields(<<>>)

StartProc ==
  [pc |-> "types", info |-> NoInfo, types |-> <<>>, enums |-> <<>>,
   tocTypes |-> <<>>, tocEnums |-> <<>>, file |-> <<>>]

Running == [state |-> "running", value |-> <<>>]

\* the InterfaceInfo instances that exist
Live == [q \in DOMAIN proc |-> proc[q].info]

\* Builder.types / Builder.enums: the merged view of a new InterfaceInfo, sorted
Ask(p, at, field, category, next) ==
  /\ proc[p].pc = at
  /\ LET info == NewInterfaceInfo(service.interfaces[p], Live)
     IN proc' = [proc EXCEPT ![p] =
                   IF info.threw
                   THEN [@ EXCEPT !.pc = "threw", !.info = info]
                   ELSE [@ EXCEPT !.pc = next, !.info = info,
                                  ![field] = sort(merged(info, category))]]
  /\ UNCHANGED <<service, files, snapshot, ref, out>>

DocsTypes(p) == Ask(p, "types", "types", "types", "enums")

DocsEnums(p) == Ask(p, "enums", "enums", "enums", "tocTypes")

TocTypes(p) == Ask(p, "tocTypes", "tocTypes", "types", "tocEnums")

TocEnums(p) == Ask(p, "tocEnums", "tocEnums", "enums", "emit")

\* the rest of buildInterfaceDocs, consumed by from(...) into the File
Emit(p) ==
  /\ proc[p].pc = "emit"
  /\ LET int == service.interfaces[p]
         doc == buildInterfaceDocs(int, proc[p].types, proc[p].enums,
                                   proc[p].tocTypes, proc[p].tocEnums)
     IN proc' = [proc EXCEPT ![p] =
                   IF doc.threw THEN [@ EXCEPT !.pc = "threw"]
                   ELSE [@ EXCEPT !.pc = "done",
                                  !.file = <<[path |-> buildInterfaceDocsFilepath(int),
                                              contents |-> doc.lines]>>]]
  /\ UNCHANGED <<service, files, snapshot, ref, out>>

\* build() returns the Files, or raises the RangeError of a call that threw
Return ==
  /\ files.state = "running"
  /\ \A p \in DOMAIN proc : proc[p].pc \in {"done", "threw"}
  /\ files' = IF \E p \in DOMAIN proc : proc[p].pc = "threw"
              THEN [state |-> "threw", value |-> <<>>]
              ELSE [state |-> "returned",
                    value |-> [p \in DOMAIN proc |-> proc[p].file[1]]]
  /\ UNCHANGED <<service, proc, snapshot, ref, out>>

\* generateDocs is called again on the same Service (as the snapshot test does
\* against the files of an earlier run); the earlier instances are garbage
Regenerate ==
  /\ files.state # "running"
  /\ snapshot = <<>>
  /\ snapshot' = <<files>>
  /\ files' = Running
  /\ proc' = [p \in DOMAIN proc |-> [StartProc EXCEPT !.info = proc[p].info]]
  /\ UNCHANGED <<service, ref, out>>

NoRef == CRef(<<>>)

NoOut == [state |-> "idle", text |-> <<>>]

Init ==
  /\ service \in WellFormedServices \cup CollidingServices \cup SharedServices
  /\ proc = [p \in DOMAIN service.interfaces |-> StartProc]
  /\ files = Running
  /\ snapshot = <<>>
  /\ ref = NoRef
  /\ out = NoOut

Next ==
  \/ \E p \in DOMAIN proc : DocsTypes(p)
  \/ \E p \in DOMAIN proc : DocsEnums(p)
  \/ \E p \in DOMAIN proc : TocTypes(p)
  \/ \E p \in DOMAIN proc : TocEnums(p)
  \/ \E p \in DOMAIN proc : Emit(p)
  \/ Return
  \/ Regenerate

Spec == Init /\ [][Next]_vars

(***************************************************************************)
(* buildLinkedTypeName on its own: one reference rendered against a        *)
(* Service whose unions may hold arrays and may name themselves.           *)
(***************************************************************************)
RenderServices ==
  LET members == {CRef(S_Z), CRef(S_a), PRef(S_date), ArrayOf(CRef(S_a)),
                  ArrayOf(PRef(S_date))}
      few == {<<>>, <<CRef(S_Z)>>, <<CRef(S_a)>>, <<PRef(S_date)>>,
              <<PRef(S_date), ArrayOf(CRef(S_date))>>}
  IN { MkService(ByName(kZ, ka, kd), ByName(lZ, la, <<>>), <<>>) :
         <<kZ, lZ>> \in ({{"unions"}} \X SeqsUpTo(members, MaxRefs))
                          \cup {<<{"types"}, <<>> >>},
         <<ka, la>> \in ({{"unions"}} \X few)
                          \cup {<<{}, <<>> >>, <<{"types"}, <<>> >>,
                                <<{"enums"}, <<>> >>,
                                <<{"types", "unions"}, <<PRef(S_date)>> >>},
         kd \in {{}, {"types"}} }

RenderRefs ==
  LET plain == {CRef(S_Z), CRef(S_a), PRef(S_date), CRef(S_date)}
  IN plain \cup {ArrayOf(r) : r \in plain}

RenderRef ==
  /\ out.state = "idle"
  /\ LET r == buildLinkedTypeName(ref, 1)
     IN out' = IF r.threw THEN [state |-> "threw", text |-> <<>>]
               ELSE [state |-> "returned", text |-> r.text]
  /\ UNCHANGED <<service, proc, files, snapshot, ref>>

InitRender ==
  /\ service \in RenderServices
  /\ proc = <<>>
  /\ files = Running
  /\ snapshot = <<>>
  /\ ref \in RenderRefs
  /\ out = NoOut

NextRender == RenderRef

RenderSpec == InitRender /\ [][NextRender]_vars

(***************************************************************************)
(* buildRules on its own: one list of validation rules.                    *)
(***************************************************************************)
NoService == MkService(<<>>, <<>>, <<>>)

RuleTags ==
  {"array-max-items", "array-min-items", "array-unique-items", "number-gt",
   "number-gte", "number-lt", "number-lte", "number-multiple-of",
   "string-max-length", "string-min-length", "string-pattern"}

\* "1" and "^a"
RuleValues == {<<49>>, <<94, 97>>}

RuleChoices == [id : RuleTags \cup {"required", "string-format"}, value : RuleValues]

ApplyBuildRules ==
  /\ out.state = "idle"
  /\ out' = [state |-> "returned", text |-> buildRules(ref)]
  /\ UNCHANGED <<service, proc, files, snapshot, ref>>

InitRules ==
  /\ service = NoService
  /\ proc = <<>>
  /\ files = Running
  /\ snapshot = <<>>
  /\ ref \in SeqsUpTo(RuleChoices, MaxRules)
  /\ out = NoOut

NextRules == ApplyBuildRules

RulesSpec == InitRules /\ [][NextRules]_vars

(***************************************************************************)
(* buildMethodDefinition on its own: one method.                           *)
(***************************************************************************)
S_get_all == <<103, 101, 116, 95, 97, 108, 108>>   \* "get_all"

\* a Parameter of the given name, required or not
MkParameter(name, required) ==
  [name |-> name, typeName |-> S_string, isPrimitive |-> TRUE, isArray |-> FALSE,
   rules |-> IF required THEN <<RequiredRule>> ELSE <<>>, description |-> <<>>]

ParameterChoices == {MkParameter(n, r) : n \in {FieldName(1), FieldName(2), S_Z}, r \in BOOLEAN}

SigMethods ==
  {[name |-> n, parameters |-> ps, returnType |-> <<>>, description |-> <<>>] :
     n \in {S_get, S_get_all}, ps \in SeqsUpTo(ParameterChoices, MaxParams)}

ApplyBuildMethodDefinition ==
  /\ out.state = "idle"
  /\ out' = [state |-> "returned", text |-> buildMethodDefinition(ref)]
  /\ UNCHANGED <<service, proc, files, snapshot, ref>>

InitSig ==
  /\ service = NoService
  /\ proc = <<>>
  /\ files = Running
  /\ snapshot = <<>>
  /\ ref \in SigMethods
  /\ out = NoOut

NextSig == ApplyBuildMethodDefinition

SigSpec == InitSig /\ [][NextSig]_vars

(***************************************************************************)
(* generateDocs over Services with arrays, map properties, a name of two   *)
(* words and up to two methods; no Union leads back to itself.             *)
(***************************************************************************)
S_b_c == <<98, 95, 99>>   \* "b_c"

MapProperties(key, value) == <<[key |-> key, value |-> value]>>

DocMethods ==
  LET params == {<<>>, <<CRef(S_Z)>>, <<ArrayOf(CRef(S_a)), CRef(S_b_c)>>}
      returns == {<<>>, <<CRef(S_Z)>>, <<ArrayOf(CRef(S_a))>>, <<ArrayOf(PRef(S_date))>>}
      get == {MkMethod(S_get, ps, r) : ps \in params, r \in returns}
  IN {<<>>} \cup {<<m>> : m \in get}
            \cup {<<MkMethod(S_get_all, <<>>, <<CRef(S_b_c)>>), m>> : m \in get}

\* the Type "Z" with properties and a map-properties facet, "a" and "b_c" of
\* any kind or absent
DocServices ==
  LET la == <<CRef(S_b_c), ArrayOf(PRef(S_date))>>
  IN { [MkService((S_Z :> {"types"}) @@ (S_a :> ka) @@ (S_b_c :> kb),
                  (S_Z :> lZ) @@ (S_a :> la) @@ (S_b_c :> <<>>),
                  <<MkInterface(S_pets, ms)>>)
          EXCEPT !.types[S_Z].mapProperties = mZ] :
         lZ \in {<<>>, <<CRef(S_a), ArrayOf(CRef(S_b_c))>>,
                 <<ArrayOf(PRef(S_date)), CRef(S_a)>>},
         mZ \in {<<>>, MapProperties(PRef(S_string), ArrayOf(CRef(S_b_c))),
                 MapProperties(CRef(S_a), ArrayOf(PRef(S_date)))},
         ka \in {{}, {"types"}, {"unions"}, {"enums"}},
         kb \in {{}, {"types"}, {"enums"}},
         ms \in DocMethods }

InitDoc ==
  /\ service \in DocServices
  /\ proc = [p \in DOMAIN service.interfaces |-> StartProc]
  /\ files = Running
  /\ snapshot = <<>>
  /\ ref = NoRef
  /\ out = NoOut

DocSpec == InitDoc /\ [][Next]_vars

(***************************************************************************)
(* new InterfaceInfo(service, int) on a Service and on the same Service    *)
(* with its lists in another order.                                        *)
(***************************************************************************)
\* the permutations of 1..n
Orderings(n) ==
  {f \in [1..n -> 1..n] : \A i, j \in 1..n : f[i] = f[j] => i = j}

Reordered(seq) == {[i \in DOMAIN seq |-> seq[f[i]]] : f \in Orderings(Len(seq))}

\* the Service with one of its lists in another order: the methods of the
\* interface, the parameters of a method, the properties of a Type or the
\* members of a Union
Reorderings(s) ==
  {[s EXCEPT !.interfaces[1].methods = ms] : ms \in Reordered(s.interfaces[1].methods)}
  \cup UNION {{[s EXCEPT !.interfaces[1].methods[m].parameters = ps] :
                 ps \in Reordered(s.interfaces[1].methods[m].parameters)} :
              m \in DOMAIN s.interfaces[1].methods}
  \cup UNION {{[s EXCEPT !.types[n].properties = ps] :
                 ps \in Reordered(s.types[n].properties)} : n \in DOMAIN s.types}
  \cup UNION {{[s EXCEPT !.unions[n].members = ms] :
                 ms \in Reordered(s.unions[n].members)} : n \in DOMAIN s.unions}

\* two methods over "Z", "a" and the Enum "date"; the lists of "Z" may name
\* "Z" itself
PermServices ==
  LET refs == {CRef(S_Z), CRef(S_a), PRef(S_date)}
      la == <<CRef(S_Z), PRef(S_date)>>
  IN { MkService(ByName(kZ, ka, {"enums"}), ByName(lZ, la, <<>>),
                 <<MkInterface(S_pets,
                     <<MkMethod(S_get, ps, r),
                       MkMethod(S_get_all, <<CRef(S_a)>>, <<CRef(S_Z)>>)>>)>>) :
         kZ \in {{"types"}, {"unions"}},
         lZ \in SeqsUpTo(refs, MaxRefs),
         ka \in {{"types"}, {"unions"}, {"enums"}},
         ps \in {<<CRef(S_Z), PRef(S_date)>>, <<PRef(S_date), CRef(S_a)>>},
         r \in {<<>>, <<CRef(S_a)>>} }

\* new InterfaceInfo(service, int)
Construct ==
  /\ snapshot = <<>>
  /\ snapshot' = <<NewInterfaceInfo(service.interfaces[1], <<>>)>>
  /\ UNCHANGED <<service, proc, files, ref, out>>

\* the caller puts one list of the Service in another order
Reorder ==
  /\ snapshot # <<>>
  /\ out.state = "idle"
  /\ \E s \in Reorderings(service) : service' = s
  /\ UNCHANGED <<proc, files, snapshot, ref, out>>

\* new InterfaceInfo(service, int), on the Service as it is now
ConstructAgain ==
  /\ snapshot # <<>>
  /\ out.state = "idle"
  /\ out' = [state |-> "returned",
             text |-> <<NewInterfaceInfo(service.interfaces[1], <<>>)>>]
  /\ UNCHANGED <<service, proc, files, snapshot, ref>>

InitPerm ==
  /\ service \in PermServices
  /\ proc = <<>>
  /\ files = Running
  /\ snapshot = <<>>
  /\ ref = NoRef
  /\ out = NoOut

NextPerm == Construct \/ Reorder \/ ConstructAgain

PermSpec == InitPerm /\ [][NextPerm]_vars

(***************************************************************************)
(* Vocabulary of the properties.                                           *)
(***************************************************************************)
Modes == {"input", "output"}

Count(seq, x) == Cardinality({i \in DOMAIN seq : seq[i] = x})

SetOf(seq) == {seq[i] : i \in DOMAIN seq}

\* an InterfaceInfo has been constructed for interface p
Constructed(p) == proc[p].pc # "types" \/ snapshot # <<>>

InfoOf(p) == proc[p].info

IsDangling(n) ==
  /\ n \notin DOMAIN service.types
  /\ n \notin DOMAIN service.unions
  /\ n \notin DOMAIN service.enums

\* the references out of the entity a name stands for: the non-primitive
\* properties of a Type, the members of a Union
RefsOut(n) ==
  IF n \in DOMAIN service.types
  THEN SelectSeq(service.types[n].properties, LAMBDA x : ~x.isPrimitive)
  ELSE IF n \in DOMAIN service.unions THEN service.unions[n].members
  ELSE <<>>

NamesOut(n) == {RefsOut(n)[i].typeName : i \in DOMAIN RefsOut(n)}

RECURSIVE Closure(_)
Closure(S) ==
  LET T == S \cup UNION {NamesOut(n) : n \in S}
  IN IF T = S THEN S ELSE Closure(T)

\* the references a method hands to the resolver, per direction
RootRefs(int, mode) ==
  LET ms == int.methods
  IN IF mode = "input"
     THEN UNION {SetOf(ms[i].parameters) : i \in DOMAIN ms}
     ELSE {ms[i].returnType[1] : i \in {j \in DOMAIN ms :
             ms[j].returnType # <<>> /\ ~ms[j].returnType[1].isPrimitive}}

Roots(int, mode) == {r.typeName : r \in RootRefs(int, mode)}

Reachable(int, mode) == Closure(Roots(int, mode))

ReachableOf(int, mode, category) ==
  {n \in Reachable(int, mode) : Resolve(n) = category}

Recorded(info, mode, n) ==
  \E c \in Categories : MapHas(info[mode][c], n)

MapSizes(info) ==
  LET len(m) == Len(info[m].types) + Len(info[m].unions) + Len(info[m].enums)
  IN len("input") + len("output")

RECURSIVE SumOver(_, _)
SumOver(S, f) ==
  IF S = {} THEN 0
  ELSE LET x == CHOOSE y \in S : TRUE IN f[x] + SumOver(S \ {x}, f)

\* the size of the type graph: the references of the interface's methods and
\* those out of every entity, once per direction
GraphSize(int) ==
  LET ms == int.methods
      ofMethod == [i \in DOMAIN ms |-> Len(ms[i].parameters) + Len(ms[i].returnType)]
      ofName == [n \in Names |-> Len(RefsOut(n))]
  IN SumOver(DOMAIN ms, ofMethod) + 2 * SumOver(Names, ofName)

OnCycle(n) == n \in Closure(NamesOut(n))

(***************************************************************************)
(* C1                                                                      *)
(***************************************************************************)
\* C1: constructing an InterfaceInfo terminates without raising, after a
\* number of traverse calls bounded by the size of the type graph, cycles
\* included; every reachable entity name is recorded exactly once in each
\* directional set it belongs to, and Map.set never ran on a key twice.
C1_TraverseTerminates ==
  \A p \in DOMAIN proc : Constructed(p) =>
    LET info == InfoOf(p)
        int == service.interfaces[p]
    IN /\ ~info.threw
       /\ info.calls <= GraphSize(int)
       /\ info.sets = MapSizes(info)
       /\ \A mode \in Modes, c \in Categories :
            \A n \in ReachableOf(int, mode, c) : Count(info[mode][c], n) = 1

\* a cyclic part of the graph was traversed and a name was met again
C1_Witness ==
  \E p \in DOMAIN proc :
    /\ Constructed(p)
    /\ \E mode \in Modes, n \in Names :
         Recorded(InfoOf(p), mode, n) /\ OnCycle(n)
    /\ InfoOf(p).calls > InfoOf(p).sets

(***************************************************************************)
(* C2                                                                      *)
(***************************************************************************)
\* C2: the input-tagged Type, Union and Enum sets hold exactly the entities
\* reachable from the parameter types of the interface's methods, and the
\* output-tagged sets exactly those reachable from the non-primitive return
\* types, following non-primitive Type properties and Union members.
C2_ClosureIsExactlyReachable ==
  \A p \in DOMAIN proc : Constructed(p) =>
    \A mode \in Modes, c \in Categories :
      SetOf(InfoOf(p)[mode][c]) = ReachableOf(service.interfaces[p], mode, c)

\* both directions hold something, an entity of the Service is in neither,
\* and a primitive property names an entity that is left out
C2_Witness ==
  \E p \in DOMAIN proc :
    LET info == InfoOf(p)
    IN /\ Constructed(p)
       /\ info.input.types # <<>> /\ info.input.unions # <<>>
       /\ MapSizes(info) > Len(info.input.types) + Len(info.input.unions)
       /\ \E n \in Names : ~IsDangling(n) /\ \A mode \in Modes : ~Recorded(info, mode, n)

(***************************************************************************)
(* C3                                                                      *)
(***************************************************************************)
\* C3: an entity reachable only from parameters is in the input set only, one
\* reachable only from return types in the output set only, one reachable from
\* both in both; the merged view (types, unions, enums) holds each once.
C3_DirectionPartition ==
  \A p \in DOMAIN proc : Constructed(p) =>
    LET info == InfoOf(p)
        int == service.interfaces[p]
    IN \A c \in Categories :
         LET I == ReachableOf(int, "input", c)
             O == ReachableOf(int, "output", c)
             view == merged(info, c)
         IN /\ \A n \in I \ O : MapHas(info.input[c], n) /\ ~MapHas(info.output[c], n)
            /\ \A n \in O \ I : MapHas(info.output[c], n) /\ ~MapHas(info.input[c], n)
            /\ \A n \in I \cap O : MapHas(info.input[c], n) /\ MapHas(info.output[c], n)
            /\ SetOf(view) = I \cup O
            /\ \A n \in I \cup O : Count(view, n) = 1
            /\ (c = "types" /\ proc[p].pc \notin {"types", "threw"}) =>
                 \A n \in I \cup O : Count(proc[p].types, n) = 1

\* one entity is input-only, one output-only and one in both
C3_Witness ==
  \E p \in DOMAIN proc :
    LET info == InfoOf(p)
    IN /\ proc[p].pc = "enums"
       /\ \E x, y, z \in Names :
            /\ Recorded(info, "input", x) /\ ~Recorded(info, "output", x)
            /\ Recorded(info, "output", y) /\ ~Recorded(info, "input", y)
            /\ MapHas(info.input.types, z) /\ MapHas(info.output.types, z)

(***************************************************************************)
(* C4                                                                      *)
(***************************************************************************)
\* the lists traverse walks in a direction: the parameters, and the references
\* out of every entity recorded in that direction
Walked(info, int, mode) ==
  LET ms == int.methods
  IN (IF mode = "input" THEN {ms[i].parameters : i \in DOMAIN ms} ELSE {})
       \cup {RefsOut(n) : n \in {m \in Names : Recorded(info, mode, m)}}

DanglingBefore(xs, j) == \E i \in 1..(j - 1) : IsDangling(xs[i].typeName)

\* C4: a name that resolves to no Type, Enum or Union adds nothing to any set
\* and raises nothing; the references after it in the same list are still
\* traversed.
C4_DanglingNamesSkipped ==
  \A p \in DOMAIN proc : Constructed(p) =>
    LET info == InfoOf(p)
        int == service.interfaces[p]
    IN /\ ~info.threw
       /\ \A mode \in Modes, n \in Names : IsDangling(n) => ~Recorded(info, mode, n)
       /\ \A mode \in Modes : \A xs \in Walked(info, int, mode) :
            \A j \in DOMAIN xs :
              (DanglingBefore(xs, j) /\ ~IsDangling(xs[j].typeName))
                => Recorded(info, mode, xs[j].typeName)

\* a dangling reference came first in a walked list, and an entity that only
\* the reference after it reaches was recorded
C4_Witness ==
  \E p \in DOMAIN proc :
    LET info == InfoOf(p)
        int == service.interfaces[p]
    IN /\ Constructed(p)
       /\ \E mode \in Modes : \E xs \in Walked(info, int, mode) :
            \E j \in DOMAIN xs :
              /\ DanglingBefore(xs, j)
              /\ Recorded(info, mode, xs[j].typeName)
              /\ \A ys \in Walked(info, int, mode) \ {xs} :
                   \A k \in DOMAIN ys : ys[k].typeName # xs[j].typeName

(***************************************************************************)
(* C5                                                                      *)
(***************************************************************************)
\* C5: rendering takes finitely many steps; buildLinkedTypeName returns on
\* every reference, also one to a Union whose members lead back to it.
C5_RenderingTerminates == out.state # "threw"

\* what C5 leaves when unions that lead back to themselves are set aside
C5_AcyclicRenderingTerminates ==
  (out.state = "threw") => \E n \in DOMAIN service.unions :
                              n \in Closure({ref.typeName}) /\ OnCycle(n)

(***************************************************************************)
(* C6                                                                      *)
(***************************************************************************)
AfterToc(p, pcs) == proc[p].pc \in pcs

SoloInfo(int) == NewInterfaceInfo(int, <<>>)

SoloDocs(int) ==
  LET info == SoloInfo(int)
      types == sort(InfoTypes(info))
      enums == sort(InfoEnums(info))
  IN buildInterfaceDocs(int, types, enums, types, enums)

\* closure sets and document of every interface are those of the interface
\* processed alone, however the interfaces interleave
C7_Isolated ==
  \A p \in DOMAIN proc :
    LET int == service.interfaces[p]
    IN /\ Constructed(p) =>
            LET solo == SoloInfo(int)
            IN InfoOf(p).input = solo.input /\ InfoOf(p).output = solo.output
       /\ proc[p].pc = "done" =>
            /\ ~SoloDocs(int).threw
            /\ proc[p].file[1].contents = SoloDocs(int).lines
            /\ proc[p].file[1].path = buildInterfaceDocsFilepath(int)

C7_RaisesOnlyOnCyclicUnions ==
  files.state = "threw" =>
    \E p \in DOMAIN proc, n \in DOMAIN service.unions :
      /\ \E mode \in Modes : n \in Reachable(service.interfaces[p], mode)
      /\ OnCycle(n)

(***************************************************************************)
(* C8                                                                      *)
(***************************************************************************)
Ascending(seq, compare(_, _)) ==
  \A i \in 1..(Len(seq) - 1) : compare(seq[i], seq[i + 1]) < 0

\* the collections an InterfaceInfo and the Builder expose
Exposed(p) ==
  LET info == InfoOf(p)
  IN {inputTypes(info), outputTypes(info), inputUnions(info), outputUnions(info),
      InfoTypes(info), InfoUnions(info), InfoEnums(info),
      proc[p].types, proc[p].enums, proc[p].tocTypes, proc[p].tocEnums}

\* C8 as stated: every exposed collection is in ascending order of the names
\* under simple lexicographic (code unit) string comparison.
C8_SortedByCodeUnits ==
  \A p \in DOMAIN proc : Constructed(p) =>
    \A seq \in Exposed(p) : Ascending(seq, CodeUnitCompare)

\* C8 as the code has it: every exposed collection is in ascending order of
\* the names under String.prototype.localeCompare, whatever the order of
\* discovery.
C8_SortedByLocaleCompare ==
  \A p \in DOMAIN proc : Constructed(p) =>
    \A seq \in Exposed(p) : Ascending(seq, localeCompare)

\* two names were discovered in the opposite of their exposed order
C8_Witness ==
  \E p \in DOMAIN proc :
    /\ proc[p].pc = "enums"
    /\ Len(proc[p].types) = 2
    /\ \E mode \in Modes : Len(InfoOf(p)[mode].types) = 2
                             /\ InfoOf(p)[mode].types # proc[p].types

(***************************************************************************)
(* C9                                                                      *)
(***************************************************************************)
\* the first category of the order that holds an entity named n
FirstOf(order, n) ==
  LET found == SelectSeq(order, LAMBDA c : n \in DOMAIN service[c])
  IN IF found = <<>> THEN "none" ELSE found[1]

RecordedByPriority(order) ==
  \A p \in DOMAIN proc : Constructed(p) =>
    \A mode \in Modes, n \in Names :
      Recorded(InfoOf(p), mode, n) =>
        \A c \in Categories : MapHas(InfoOf(p)[mode][c], n) <=> c = FirstOf(order, n)

\* C9 as stated: a name found in several categories is recorded only in the
\* first of Type, then Enum, then Union.
C9_TypeEnumUnion == RecordedByPriority(<<"types", "enums", "unions">>)

\* C9 as the code has it: a name found in several categories is recorded only
\* in the first of Type, then Union, then Enum.
C9_TypeUnionEnum == RecordedByPriority(<<"types", "unions", "enums">>)

\* a name that is both an Enum and a Union was recorded, and one that is a
\* Type besides was too
C9_Witness ==
  \E p \in DOMAIN proc :
    /\ Constructed(p)
    /\ \E mode \in Modes, n \in Names :
         /\ Recorded(InfoOf(p), mode, n)
         /\ n \in DOMAIN service.enums /\ n \in DOMAIN service.unions
         /\ n \notin DOMAIN service.types

(***************************************************************************)
(* C10                                                                     *)
(***************************************************************************)
Contains(text, part) ==
  \E i \in 0..(Len(text) - Len(part)) : SubSeq(text, i + 1, i + Len(part)) = part

\* the members of the Union, each rendered by itself, joined by " | "
Flattened(union) ==
  LET each == [i \in DOMAIN union.members |->
                 buildLinkedTypeName(union.members[i], 1).text]
  IN join(each, <<32, 124, 32>>)

UnionRendered ==
  (out.state # "idle" /\ ref.typeName \in DOMAIN service.unions) =>
    LET union == service.unions[ref.typeName]
    IN /\ out.state = "returned"
       /\ out.text = IF ref.isArray
                     THEN <<40>> \o Flattened(union) \o <<41, 91, 93>>
                     ELSE Flattened(union)
       /\ ref.typeName \notin {union.members[i].typeName : i \in DOMAIN union.members}
            => ~Contains(out.text, anchor(pascal(ref.typeName)) \o <<41>>)

\* C10: a reference to a Union renders as its members, each rendered
\* recursively, joined by " | ", with no anchor link for the Union itself; an
\* array of the Union is that in parentheses followed by "[]".
C10_UnionFlattened == UnionRendered

\* what C10 leaves: the format holds of every Union that does not lead back
\* to itself
C10_AcyclicUnionFlattened ==
  (\A n \in DOMAIN service.unions : ~OnCycle(n)) => UnionRendered

(***************************************************************************)
(* C14                                                                     *)
(***************************************************************************)
\* the bullet of the table for a tag, up to the place of the parameter
RuleTemplate(tag) ==
  CASE tag = "array-max-items" -> <<32, 32, 45, 32>> \o
         <<77, 97, 120, 32, 97, 114, 114, 97, 121, 32, 108, 101, 110, 103,
           116, 104, 58, 32>>
    [] tag = "array-min-items" -> <<32, 32, 45, 32>> \o
         <<77, 105, 110, 32, 97, 114, 114, 97, 121, 32, 108, 101, 110, 103,
           116, 104, 58, 32>>
    [] tag = "array-unique-items" -> <<32, 32, 45, 32>> \o
         <<86, 97, 108, 117, 101, 115, 32, 109, 117, 115, 116, 32, 98, 101,
           32, 117, 110, 105, 113, 117, 101>>
    [] tag = "number-gt" -> <<32, 32, 45, 32>> \o
         <<77, 117, 115, 116, 32, 98, 101, 32, 103, 114, 101, 97, 116, 101,
           114, 32, 116, 104, 97, 110, 32>>
    [] tag = "number-gte" -> <<32, 32, 45, 32>> \o
         <<77, 117, 115, 116, 32, 98, 101, 32, 103, 114, 101, 97, 116, 101,
           114, 32, 116, 104, 97, 110, 32, 111, 114, 32, 101, 113, 117, 97,
           108, 32, 116, 111, 32>>
    [] tag = "number-lt" -> <<32, 32, 45, 32>> \o
         <<77, 117, 115, 116, 32, 98, 101, 32, 108, 101, 115, 115, 32, 116,
           104, 97, 110, 32>>
    [] tag = "number-lte" -> <<32, 32, 45, 32>> \o
         <<77, 117, 115, 116, 32, 98, 101, 32, 108, 101, 115, 115, 32, 116,
           104, 97, 110, 32, 111, 114, 32, 101, 113, 117, 97, 108, 32, 116,
           111, 32>>
    [] tag = "number-multiple-of" -> <<32, 32, 45, 32>> \o
         <<77, 117, 115, 116, 32, 98, 101, 32, 97, 32, 109, 117, 108, 116,
           105, 112, 108, 101, 32, 111, 102, 32>>
    [] tag = "string-max-length" -> <<32, 32, 45, 32>> \o
         <<77, 97, 120, 32, 108, 101, 110, 103, 116, 104, 58, 32>>
    [] tag = "string-min-length" -> <<32, 32, 45, 32>> \o
         <<77, 105, 110, 32, 108, 101, 110, 103, 116, 104, 58, 32>>
    [] tag = "string-pattern" -> <<32, 32, 45, 32>> \o
         <<77, 117, 115, 116, 32, 109, 97, 116, 99, 104, 32, 112, 97, 116,
           116, 101, 114, 110, 58, 32>>

\* one bullet per rule of a tag of the table, in the declared order; the
\* parameter goes between `before` and `after`
BulletsOf(rules, before, after) ==
  Concat([i \in DOMAIN rules |->
            IF rules[i].id \notin RuleTags THEN <<>>
            ELSE IF rules[i].id = "array-unique-items"
              THEN <<RuleTemplate(rules[i].id)>>
            ELSE <<RuleTemplate(rules[i].id) \o before \o rules[i].value \o after>>])

\* C14 as stated: buildRules emits, in the declared order, one bullet per rule
\* of a recognized tag, the text of the table with the parameter value
\* substituted verbatim, and nothing for any other rule.
C14_BulletsOfTheTable ==
  out.state = "returned" => out.text = BulletsOf(ref, <<>>, <<>>)

\* C14 as the code has it: the same, with the parameter value between two
\* backticks.
C14_BulletsWithQuotedValue ==
  out.state = "returned" => out.text = BulletsOf(ref, <<96>>, <<96>>)

\* a rule of an unknown tag came before a rule with a parameter: one bullet
C14_Witness ==
  /\ out.state = "returned"
  /\ Len(ref) = 2
  /\ ref[1].id = "string-format"
  /\ ref[2].id = "string-pattern"
  /\ Len(out.text) = 1

(***************************************************************************)
(* C15                                                                     *)
(***************************************************************************)
\* the entry of a parameter: its name, and "?" exactly when it is not required
SignatureEntry(param) ==
  camel(param.name) \o (IF \E i \in DOMAIN param.rules : param.rules[i].id = "required"
                        THEN <<>> ELSE <<63>>)

NoneRequired(method) ==
  \A i \in DOMAIN method.parameters :
    \A j \in DOMAIN method.parameters[i].rules :
      method.parameters[i].rules[j].id # "required"

\* the parameters in some order ascending by name (localeCompare), each with
\* its entry, joined by ", " between "{" and "}"
ListsParameters(method, text) ==
  \E f \in Orderings(Len(method.parameters)) :
    /\ \A i \in 1..(Len(method.parameters) - 1) :
         localeCompare(method.parameters[f[i]].name,
                       method.parameters[f[i + 1]].name) <= 0
    /\ Contains(text,
         <<123>> \o join([i \in DOMAIN method.parameters |->
                            SignatureEntry(method.parameters[f[i]])], <<44, 32>>)
                 \o <<125>>)

HasMarker(text) == Contains(text, <<32, 124, 32, 117, 110, 100, 101, 102, 105, 110, 101, 100>>)

\* C15 as stated: the signature lists the parameter names sorted by name, "?"
\* on a parameter exactly when it is not required, and has the marker
\* " | undefined" exactly when no parameter of the method is required.
C15_MarkerIffNoneRequired ==
  out.state = "returned" =>
    /\ ref.parameters # <<>> => ListsParameters(ref, out.text)
    /\ HasMarker(out.text) <=> NoneRequired(ref)

\* C15 as the code has it: a method without parameters has its bare name for
\* signature, no parameter object and no marker; a method with parameters
\* has name({entries} marker) with the entries sorted by name, "?" exactly on
\* those not required, and the marker exactly when none is required.
C15_MarkerIffParametersNoneRequired ==
  out.state = "returned" =>
    /\ ref.parameters = <<>> => out.text = camel(ref.name)
    /\ ref.parameters # <<>> =>
         /\ ListsParameters(ref, out.text)
         /\ Len(out.text) =
              Len(camel(ref.name)) + 4 + 2 * (Len(ref.parameters) - 1)
                + SumOver(DOMAIN ref.parameters,
                          [i \in DOMAIN ref.parameters |->
                             Len(SignatureEntry(ref.parameters[i]))])
                + (IF NoneRequired(ref) THEN 12 ELSE 0)
         /\ SubSeq(out.text, 1, Len(camel(ref.name)) + 1) = camel(ref.name) \o <<40>>
         /\ out.text[Len(out.text)] = 41
    /\ HasMarker(out.text) <=> (ref.parameters # <<>> /\ NoneRequired(ref))

\* declared q (required), p (optional): listed p?, q and no marker
C15_Witness ==
  /\ out.state = "returned"
  /\ Len(ref.parameters) = 2
  /\ ref.parameters[1].name = <<113>> /\ ~NoneRequired(ref)
  /\ ref.parameters[2].name = <<112>> /\ ref.parameters[2].rules = <<>>
  /\ ref.name = S_get_all
  /\ ~HasMarker(out.text)
  /\ Contains(out.text, <<123, 112, 63, 44, 32, 113, 125>>)

(***************************************************************************)
(* Vocabulary of the rendered documents.                                   *)
(***************************************************************************)
\* the interfaces whose document has been written
Written == {p \in DOMAIN proc : proc[p].pc = "done"}

DocOf(p) == proc[p].file[1].contents

StartsWith(line, prefix) ==
  Len(line) >= Len(prefix) /\ SubSeq(line, 1, Len(prefix)) = prefix

Occurrences(text, part) ==
  Cardinality({i \in 0..(Len(text) - Len(part)) :
                 SubSeq(text, i + 1, i + Len(part)) = part})

\* "### " and the heading
HeadingLine(heading) == <<35, 35, 35, 32>> \o heading

\* the lines under the heading, up to the next heading of a section or block
Section(doc, heading) ==
  IF \A i \in DOMAIN doc : doc[i] # HeadingLine(heading) THEN <<>>
  ELSE LET i == CHOOSE k \in DOMAIN doc :
                  /\ doc[k] = HeadingLine(heading)
                  /\ \A l \in 1..(k - 1) : doc[l] # HeadingLine(heading)
           ends == {k \in (i + 1)..Len(doc) :
                      \/ StartsWith(doc[k], <<35, 35, 32>>)
                      \/ StartsWith(doc[k], <<35, 35, 35, 32>>)} \cup {Len(doc) + 1}
           j == CHOOSE k \in ends : \A l \in ends : k <= l
       IN SubSeq(doc, i + 1, j - 1)

\* "- `", the name and "` ": the start of the line of a parameter or property
FieldStart(x) == <<45, 32, 96>> \o camel(x.name) \o <<96, 32>>

\* the references rendered in the document of the interface, each with the
\* heading of its section and the start of its line
ReferencesRendered(int, doc) ==
  UNION {
    {[heading |-> camel(int.methods[m].name),
      start |-> FieldStart(int.methods[m].parameters[i]),
      ref |-> int.methods[m].parameters[i]] : i \in DOMAIN int.methods[m].parameters}
    \cup
    {[heading |-> camel(int.methods[m].name),
      \* "Returns: "
      start |-> <<82, 101, 116, 117, 114, 110, 115, 58, 32>>,
      ref |-> int.methods[m].returnType[i]] : i \in DOMAIN int.methods[m].returnType}
    : m \in DOMAIN int.methods}
  \cup
  UNION {
    {[heading |-> pascal(n),
      start |-> FieldStart(service.types[n].properties[i]),
      ref |-> service.types[n].properties[i]] : i \in DOMAIN service.types[n].properties}
    \cup
    {[heading |-> pascal(n),
      \* "- Keys: "
      start |-> <<45, 32, 75, 101, 121, 115, 58, 32>>,
      ref |-> service.types[n].mapProperties[i].key] : i \in DOMAIN service.types[n].mapProperties}
    \cup
    {[heading |-> pascal(n),
      \* "- Values: "
      start |-> <<45, 32, 86, 97, 108, 117, 101, 115, 58, 32>>,
      ref |-> service.types[n].mapProperties[i].value] : i \in DOMAIN service.types[n].mapProperties}
    : n \in {t \in DOMAIN service.types :
               \E k \in DOMAIN doc : doc[k] = HeadingLine(pascal(t))}}

\* the line of a reference rendered in the document (a sequence of one line)
LineOf(doc, r) ==
  SelectSeq(Section(doc, r.heading), LAMBDA line : StartsWith(line, r.start))

\* the array suffixes a reference has to show: its own, and those of the
\* members of the Union it names
RECURSIVE ArraySuffixes(_)
ArraySuffixes(r) ==
  (IF r.isArray THEN 1 ELSE 0)
  + (IF r.typeName \in DOMAIN service.unions
     THEN LET ms == service.unions[r.typeName].members
          IN SumOver(DOMAIN ms, [i \in DOMAIN ms |-> ArraySuffixes(ms[i])])
     ELSE 0)

SuffixOnce(doc, r) ==
  /\ Len(LineOf(doc, r)) = 1
  /\ Occurrences(LineOf(doc, r)[1], <<91, 93>>) = ArraySuffixes(r.ref)

(***************************************************************************)
(* C11                                                                     *)
(***************************************************************************)
\* C11 as stated: in every document, the line of every reference (parameter,
\* property, return value, map key or value) shows the array suffix "[]" of
\* the reference exactly once (and once more for each array among the
\* members of the Union it names).
C11_ArraySuffixOnce ==
  \A p \in Written :
    \A r \in ReferencesRendered(service.interfaces[p], DocOf(p)) :
      SuffixOnce(DocOf(p), r)

\* the same, return values left out: holds
C11_ArraySuffixOnceButReturns ==
  \A p \in Written :
    \A r \in ReferencesRendered(service.interfaces[p], DocOf(p)) :
      r.start # <<82, 101, 116, 117, 114, 110, 115, 58, 32>> => SuffixOnce(DocOf(p), r)

\* the return value that is not an array has no suffix: holds
C11_NoSuffixOnPlainReturns ==
  \A p \in Written :
    \A r \in ReferencesRendered(service.interfaces[p], DocOf(p)) :
      ~r.ref.isArray => SuffixOnce(DocOf(p), r)

(***************************************************************************)
(* C12                                                                     *)
(***************************************************************************)
\* the texts of the section headings of a document
Headings(doc) ==
  {SubSeq(doc[i], 5, Len(doc[i])) :
     i \in {k \in DOMAIN doc : StartsWith(doc[k], <<35, 35, 35, 32>>)}}

\* the anchor of a heading: lower case, each space a hyphen, after "#"
AnchorOfHeading(text) ==
  <<35>> \o [i \in DOMAIN text |->
               IF text[i] = 32 THEN 45
               ELSE IF text[i] >= 65 /\ text[i] <= 90 THEN text[i] + 32
               ELSE text[i]]

\* "  - [heading](target)"
TocLine(heading, target) ==
  <<32, 32, 45, 32, 91>> \o heading \o <<93, 40>> \o target \o <<41>>

Resolves(doc, heading) ==
  \E i \in DOMAIN doc : doc[i] = TocLine(heading, AnchorOfHeading(heading))

\* C12 as stated: every section heading of a document (method, Type, Enum)
\* has a table-of-contents link whose anchor is the anchor of the heading.
C12_TocLinksResolve ==
  \A p \in Written : \A h \in Headings(DocOf(p)) : Resolves(DocOf(p), h)

\* the headings of the methods have: holds
C12_MethodLinksResolve ==
  \A p \in Written :
    \A m \in DOMAIN service.interfaces[p].methods :
      /\ camel(service.interfaces[p].methods[m].name) \in Headings(DocOf(p))
      /\ Resolves(DocOf(p), camel(service.interfaces[p].methods[m].name))

\* the headings of the Types and Enums whose names are one word have: holds
C12_OneWordLinksResolve ==
  \A p \in Written :
    \A h \in Headings(DocOf(p)) : h # pascal(S_b_c) => Resolves(DocOf(p), h)

(***************************************************************************)
(* C13                                                                     *)
(***************************************************************************)
\* the lines from the one after `from` up to the first line that `stop` starts
Below(doc, from, stop) ==
  IF \A i \in DOMAIN doc : doc[i] # from THEN <<>>
  ELSE LET i == CHOOSE k \in DOMAIN doc :
                  doc[k] = from /\ \A l \in 1..(k - 1) : doc[l] # from
           ends == {k \in (i + 1)..Len(doc) : StartsWith(doc[k], stop)}
                     \cup {Len(doc) + 1}
           j == CHOOSE k \in ends : \A l \in ends : k <= l
       IN SubSeq(doc, i + 1, j - 1)

\* the headings of the sections of a block ("## Methods", ...), in order
BlockHeadings(doc, block) ==
  LET lines == SelectSeq(Below(doc, block, <<35, 35, 32>>),
                         LAMBDA line : StartsWith(line, <<35, 35, 35, 32>>))
  IN [i \in DOMAIN lines |-> SubSeq(lines[i], 5, Len(lines[i]))]

\* the labels of the links of a group of the table of contents ("- Methods",
\* ...), in order: the lines "  - [label](target)" that follow the group's line
GroupLabels(doc, group) ==
  IF \A i \in DOMAIN doc : doc[i] # group THEN <<>>
  ELSE LET i == CHOOSE k \in DOMAIN doc : doc[k] = group
           ends == {k \in (i + 1)..Len(doc) :
                      ~StartsWith(doc[k], <<32, 32, 45, 32, 91>>)} \cup {Len(doc) + 1}
           j == CHOOSE k \in ends : \A l \in ends : k <= l
           lines == SubSeq(doc, i + 1, j - 1)
       IN [n \in DOMAIN lines |->
             LET close == CHOOSE k \in DOMAIN lines[n] :
                            lines[n][k] = 93 /\ \A l \in 1..(k - 1) : lines[n][l] # 93
             IN SubSeq(lines[n], 6, close - 1)]

\* the names of a set, ascending (localeCompare)
AscendingNames(S) ==
  CHOOSE seq \in [1..Cardinality(S) -> S] :
    /\ SetOf(seq) = S
    /\ \A i \in 1..(Len(seq) - 1) : localeCompare(seq[i], seq[i + 1]) < 0

ClosureOf(int, category) ==
  ReachableOf(int, "input", category) \cup ReachableOf(int, "output", category)

\* the methods in an order ascending by name
MethodsAscending(int, labels) ==
  \E f \in Orderings(Len(int.methods)) :
    /\ \A i \in 1..(Len(int.methods) - 1) :
         localeCompare(int.methods[f[i]].name, int.methods[f[i + 1]].name) <= 0
    /\ labels = [i \in DOMAIN int.methods |-> camel(int.methods[f[i]].name)]

PascalOf(names) == [i \in DOMAIN names |-> pascal(names[i])]

\* the lines of the properties in the section of a Type, in order
PropertyLines(doc, n) ==
  SelectSeq(Section(doc, pascal(n)), LAMBDA line : StartsWith(line, <<45, 32, 96>>))

\* C13: in every document the methods, the closure Types and the closure
\* Enums are in ascending order of their names in their sections, the table
\* of contents lists the same entities in the same order, and the properties
\* of a Type are in their declared order.
C13_SortedSectionsDeclaredProperties ==
  \A p \in Written :
    LET int == service.interfaces[p]
        doc == DocOf(p)
    IN /\ MethodsAscending(int, BlockHeadings(doc, <<35, 35, 32>> \o <<77, 101, 116, 104, 111, 100, 115>>))
       /\ BlockHeadings(doc, <<35, 35, 32>> \o <<84, 121, 112, 101, 115>>)
            = PascalOf(AscendingNames(ClosureOf(int, "types")))
       /\ BlockHeadings(doc, <<35, 35, 32>> \o <<69, 110, 117, 109, 115>>)
            = PascalOf(AscendingNames(ClosureOf(int, "enums")))
       /\ GroupLabels(doc, <<45, 32>> \o <<77, 101, 116, 104, 111, 100, 115>>)
            = BlockHeadings(doc, <<35, 35, 32>> \o <<77, 101, 116, 104, 111, 100, 115>>)
       /\ GroupLabels(doc, <<45, 32>> \o <<84, 121, 112, 101, 115>>)
            = BlockHeadings(doc, <<35, 35, 32>> \o <<84, 121, 112, 101, 115>>)
       /\ GroupLabels(doc, <<45, 32>> \o <<69, 110, 117, 109, 115>>)
            = BlockHeadings(doc, <<35, 35, 32>> \o <<69, 110, 117, 109, 115>>)
       /\ \A n \in ClosureOf(int, "types") :
            LET props == service.types[n].properties
                lines == PropertyLines(doc, n)
            IN /\ Len(lines) = Len(props)
               /\ \A i \in DOMAIN props : StartsWith(lines[i], FieldStart(props[i]))

\* methods declared get_all, get; Types found Z, a, b_c and listed a, b_c, Z;
\* Z with its properties q, p as declared
C13_Witness ==
  \E p \in Written :
    /\ Len(service.interfaces[p].methods) = 2
    /\ service.interfaces[p].methods[1].name = S_get_all
    /\ BlockHeadings(DocOf(p), <<35, 35, 32>> \o <<84, 121, 112, 101, 115>>)
         = <<pascal(S_a), pascal(S_b_c), pascal(S_Z)>>
    /\ Len(PropertyLines(DocOf(p), S_Z)) = 2
    /\ StartsWith(PropertyLines(DocOf(p), S_Z)[1], <<45, 32, 96, 113, 96>>)

(***************************************************************************)
(* C16                                                                     *)
(***************************************************************************)
\* the places of a line in a document
Places(doc, line) == {i \in DOMAIN doc : doc[i] = line}

\* every place of the first set is before every place of the second
Before(A, B) == \A i \in A, j \in B : i < j

\* the line is in the document once if the collection has something in it,
\* and not at all if it is empty
OnceIff(doc, line, nonEmpty) ==
  Cardinality(Places(doc, line)) = IF nonEmpty THEN 1 ELSE 0

\* C16: in every document the blocks "## Methods", "## Types", "## Enums" and
\* the table-of-contents groups "- Methods", "- Types", "- Enums" are there
\* exactly when the interface has methods, the closure has Types, the closure
\* has Enums; the groups come in that order after the banner, the title and
\* the description, the blocks in that order after the groups.
C16_BlocksIffNonEmpty ==
  \A p \in Written :
    LET int == service.interfaces[p]
        doc == DocOf(p)
        hasMethods == int.methods # <<>>
        hasTypes == ClosureOf(int, "types") # {}
        hasEnums == ClosureOf(int, "enums") # {}
        h2Methods == Places(doc, <<35, 35, 32, 77, 101, 116, 104, 111, 100, 115>>)
        h2Types == Places(doc, <<35, 35, 32, 84, 121, 112, 101, 115>>)
        h2Enums == Places(doc, <<35, 35, 32, 69, 110, 117, 109, 115>>)
        tocMethods == Places(doc, <<45, 32, 77, 101, 116, 104, 111, 100, 115>>)
        tocTypes == Places(doc, <<45, 32, 84, 121, 112, 101, 115>>)
        tocEnums == Places(doc, <<45, 32, 69, 110, 117, 109, 115>>)
        \* the lines that start with "# ": the title
        titles == {i \in DOMAIN doc : StartsWith(doc[i], <<35, 32>>)}
        \* "<!--" and "--->": the banner
        banner == Places(doc, <<60, 33, 45, 45>>) \cup Places(doc, <<45, 45, 45, 62>>)
    IN /\ OnceIff(doc, <<35, 35, 32, 77, 101, 116, 104, 111, 100, 115>>, hasMethods)
       /\ OnceIff(doc, <<35, 35, 32, 84, 121, 112, 101, 115>>, hasTypes)
       /\ OnceIff(doc, <<35, 35, 32, 69, 110, 117, 109, 115>>, hasEnums)
       /\ OnceIff(doc, <<45, 32, 77, 101, 116, 104, 111, 100, 115>>, hasMethods)
       /\ OnceIff(doc, <<45, 32, 84, 121, 112, 101, 115>>, hasTypes)
       /\ OnceIff(doc, <<45, 32, 69, 110, 117, 109, 115>>, hasEnums)
       /\ Len(BlockHeadings(doc, <<35, 35, 32, 77, 101, 116, 104, 111, 100, 115>>))
            = Len(int.methods)
       /\ Len(BlockHeadings(doc, <<35, 35, 32, 84, 121, 112, 101, 115>>))
            = Cardinality(ClosureOf(int, "types"))
       /\ Len(BlockHeadings(doc, <<35, 35, 32, 69, 110, 117, 109, 115>>))
            = Cardinality(ClosureOf(int, "enums"))
       /\ doc[1] = <<60, 33, 45, 45>>
       /\ Cardinality(titles) = 1
       /\ Before(banner, titles)
       /\ Before(titles, tocMethods \cup tocTypes \cup tocEnums)
       /\ Before(tocMethods, tocTypes) /\ Before(tocTypes, tocEnums)
       /\ Before(tocMethods, tocEnums)
       /\ Before(tocMethods \cup tocTypes \cup tocEnums, h2Methods \cup h2Types \cup h2Enums)
       /\ Before(h2Methods, h2Types) /\ Before(h2Types, h2Enums)
       /\ Before(h2Methods, h2Enums)
       /\ Before(titles, h2Methods \cup h2Types \cup h2Enums)

\* a document with methods and Enums and no Types: the Enums block follows the
\* Methods block and there is no Types block
C16_Witness ==
  \E p \in Written :
    /\ Places(DocOf(p), <<35, 35, 32, 84, 121, 112, 101, 115>>) = {}
    /\ Places(DocOf(p), <<45, 32, 84, 121, 112, 101, 115>>) = {}
    /\ Places(DocOf(p), <<35, 35, 32, 77, 101, 116, 104, 111, 100, 115>>) # {}
    /\ Places(DocOf(p), <<35, 35, 32, 69, 110, 117, 109, 115>>) # {}
    /\ Places(DocOf(p), <<45, 32, 69, 110, 117, 109, 115>>) # {}


(***************************************************************************)
(* C17                                                                     *)
(***************************************************************************)
\* the Types and Enums of the Service
Sectioned == DOMAIN service.types \cup DOMAIN service.enums

\* the line links to the section of the entity: "](", its anchor, ")"
LinksTo(line, n) ==
  Contains(line, <<93, 40>> \o AnchorOfHeading(pascal(n)) \o <<41>>)

\* the line of a key or of a value of a map-properties facet
IsMapLine(line) ==
  \/ StartsWith(line, <<45, 32, 75, 101, 121, 115, 58, 32>>)
  \/ StartsWith(line, <<45, 32, 86, 97, 108, 117, 101, 115, 58, 32>>)

\* C17 as stated: in every document, a Type or Enum of the Service that a
\* line links to has a section in the document.
C17_LinksHaveSections ==
  \A p \in Written :
    \A n \in Sectioned :
      (\E i \in DOMAIN DocOf(p) : LinksTo(DocOf(p)[i], n))
        => pascal(n) \in Headings(DocOf(p))

\* the same of every line but those of map keys and map values: holds
C17_LinksOutsideMapsHaveSections ==
  \A p \in Written :
    \A n \in Sectioned :
      (\E i \in DOMAIN DocOf(p) :
         ~IsMapLine(DocOf(p)[i]) /\ LinksTo(DocOf(p)[i], n))
        => pascal(n) \in Headings(DocOf(p))


(***************************************************************************)
(* C18                                                                     *)
(***************************************************************************)
\* the six closure sets of an InterfaceInfo
ClosureSets(info) ==
  [mode \in Modes |-> [c \in Categories |-> SetOf(info[mode][c])]]

\* C18: the InterfaceInfo of an interface constructed after the methods, the
\* parameters of a method, the properties of a Type or the members of a Union
\* were put in another order has the same input and output Type, Union and
\* Enum sets, and exposes the same sorted collections.
C18_OrderInsensitive ==
  out.state = "returned" =>
    /\ ~snapshot[1].threw /\ ~out.text[1].threw
    /\ ClosureSets(out.text[1]) = ClosureSets(snapshot[1])
    /\ \A c \in Categories : merged(out.text[1], c) = merged(snapshot[1], c)

\* the second traversal found the input Types in another order
C18_Witness ==
  /\ out.state = "returned"
  /\ Len(snapshot[1].input.types) = 2
  /\ out.text[1].input.types # snapshot[1].input.types
  /\ SetOf(out.text[1].input.types) = SetOf(snapshot[1].input.types)

====
